---- MODULE Spec2Model ----
(***************************************************************************)
(* Model of Device_Embedding/C/main.c: the camera capture loop, the       *)
(* shell-out to the detector, the reading of the detector's result file   *)
(* and the buzzer pulse.  main() is one sequential process; pc is its     *)
(* position, every action is one statement (or one if-block) of main().   *)
(***************************************************************************)
EXTENDS Integers, Sequences, FiniteSets, TLC

(* ---------------- bounds of the model ---------------- *)
MaxFrames == 3      \* frames the camera delivers before the model stops reading
MaxClock == 2       \* largest value time(NULL) returns
MaxFileLen == 2     \* largest number of characters in image1.txt

(* ---------------- program constants ---------------- *)
BUZZER_PIN == 32            \* main.c:5
KeyQ == 113                 \* 'q', main.c:28
KeyS == 115                 \* 's', main.c:37
DetectorImageId == 1        \* "--source image1.jpg", main.c:54
ResultFileId == 1           \* "image1.txt", main.c:61
LineBufSize == 100          \* char line[100], main.c:62
PulseMs == 500              \* delay(500), main.c:88

NL == "\n"
Chars == {"a", " ", NL}
NoFile == <<>>              \* image1.txt does not exist
NoFrame == 0                \* an empty cv::Mat

VARIABLES
    pc,         \* position in main()
    ret,        \* value returned by main(), meaningful when pc = "done"
    camOpen,    \* cap holds an open camera device
    windowOpen, \* the "Camera" window exists
    frame,      \* cv::Mat frame: NoFrame or the number of the frame it holds
    frameNo,    \* number of frames the camera has delivered so far
    shown,      \* frame last passed to imshow
    key,        \* char key
    now,        \* last value returned by time(NULL)
    images,     \* image files written by imwrite, in order: [id, frame]
    out,        \* what printf wrote, in order
    detector,   \* invocations of system(): [image, status]
    resultFile, \* image1.txt on disk: NoFile or <<its text>>
    file,       \* FILE *file: "unset", "null", "open" or "closed"
    filePos,    \* read position of file
    line,       \* char line[100]: the last chunk fgets stored
    gpio,       \* "uninit", "ready" or "failed"
    pin,        \* what the GPIO layer was asked to do, in order
    keysPolled, \* every value waitKey returned, in order
    keyFrame,   \* the frame on display when waitKey last returned
    readFailed  \* some cap.read(frame) left frame empty

vars == <<pc, ret, camOpen, windowOpen, frame, frameNo, shown, key, now, images,
          out, detector, resultFile, file, filePos, line, gpio, pin,
          keysPolled, keyFrame, readFailed>>

captureVars == <<camOpen, windowOpen, frame, frameNo, shown, key, now, images,
                 keysPolled, keyFrame, readFailed>>
readerVars == <<resultFile, file, filePos, line>>
alertVars == <<gpio, pin>>

(* ---------------- pure helpers ---------------- *)

\* all character sequences of length at most n
RECURSIVE Texts(_)
Texts(n) == IF n = 0 THEN {<<>>}
            ELSE Texts(n - 1) \cup
                 {Append(t, c) : t \in {u \in Texts(n - 1) : Len(u) = n - 1}, c \in Chars}

FileContents == Texts(MaxFileLen)

\* the states of image1.txt on disk: absent, or present with some text
Files == {NoFile} \cup {<<t>> : t \in FileContents}

\* conversion of waitKey's int to char (signed, 8 bits)
ToChar(c) == ((c + 128) % 256) - 128

\* what cv::waitKey(1) may return: -1 (no key pressed), 'a' (some other key), 's', 'q'
KeyCodes == {-1, 97, KeyS, KeyQ}

\* fgets(line, size, file): at most size-1 characters from pos, stopping
\* after the first newline; <<>> stands for the NULL return at end of file
RECURSIVE Fgets(_, _, _)
Fgets(content, pos, size) ==
    IF pos > Len(content) \/ size <= 1 THEN <<>>
    ELSE IF content[pos] = NL THEN <<NL>>
    ELSE <<content[pos]>> \o Fgets(content, pos + 1, size - 1)

\* sizeof(line)
SizeofLine == LineBufSize

TypeOK ==
    /\ pc \in {"open", "readFirst", "showFirst", "pollFirst", "loopTest", "loopRead",
               "loopShow", "loopSave", "loopPoll", "release", "detect", "fopen",
               "fgets", "fclose", "gpioSetup", "checkLine", "pinMode", "high",
               "delay1", "low", "delay2", "return0", "done"}
    /\ ret \in {-1, 0, 1}
    /\ camOpen \in BOOLEAN /\ windowOpen \in BOOLEAN
    /\ frame \in 0..frameNo /\ frameNo \in 0..MaxFrames
    /\ now \in 1..MaxClock
    /\ resultFile \in Files
    /\ file \in {"unset", "null", "open", "closed"}
    /\ gpio \in {"uninit", "ready", "failed"}

Init ==
    /\ pc = "open"
    /\ ret = 0
    /\ camOpen = FALSE
    /\ windowOpen = FALSE
    /\ frame = NoFrame
    /\ frameNo = 0
    /\ shown = NoFrame
    /\ key = 0
    /\ now = 1
    /\ images = <<>>
    /\ out = <<>>
    /\ detector = <<>>
    /\ resultFile \in Files
    /\ file = "unset"
    /\ filePos = 1
    /\ line = <<>>
    /\ gpio = "uninit"
    /\ pin = <<>>
    /\ keysPolled = <<>>
    /\ keyFrame = NoFrame
    /\ readFailed = FALSE

(* ---------------- capture stage, main.c:10-51 ---------------- *)

\* Return without the release done by ~VideoCapture
Return_NoRelease(code) ==
    /\ pc' = "done"
    /\ ret' = code
    /\ UNCHANGED camOpen

\* return from main(): cap goes out of scope and ~VideoCapture releases the device
Return(code) ==
    /\ pc' = "done"
    /\ ret' = code
    /\ camOpen' = FALSE

\* an open failure that is reported but does not end main()
OpenCamera_NoReturn ==
    /\ pc = "open"
    /\ \E ok \in BOOLEAN :
        /\ camOpen' = ok
        /\ out' = IF ok THEN out ELSE Append(out, <<"Cannot open camera.">>)
    /\ pc' = "readFirst"
    /\ UNCHANGED <<ret, windowOpen, frame, frameNo, shown, key, now, images, keysPolled,
                   keyFrame, readFailed, detector, readerVars, alertVars>>

\* cv::VideoCapture cap(0); if (!cap.isOpened()) { printf; return -1; }
OpenCamera ==
    /\ pc = "open"
    /\ \E ok \in BOOLEAN :
        IF ok
        THEN /\ camOpen' = TRUE
             /\ pc' = "readFirst"
             /\ UNCHANGED <<ret, out>>
        ELSE /\ out' = Append(out, <<"Cannot open camera.">>)
             /\ Return(-1)
    /\ UNCHANGED <<windowOpen, frame, frameNo, shown, key, now, images, keysPolled, keyFrame,
                   readFailed, detector, readerVars, alertVars>>

\* cap.read(frame): the next frame of the camera, or an empty frame on failure
CapRead(ok) ==
    IF ok
    THEN /\ frameNo' = frameNo + 1
         /\ frame' = frameNo + 1
         /\ UNCHANGED readFailed
    ELSE /\ frame' = NoFrame
         /\ readFailed' = TRUE
         /\ UNCHANGED frameNo

\* cap.read(frame); if (frame.empty()) { printf; return -1; }
ReadFirst ==
    /\ pc = "readFirst"
    /\ \E ok \in BOOLEAN :
        /\ CapRead(ok)
        /\ IF ok
           THEN /\ pc' = "showFirst"
                /\ UNCHANGED <<ret, out, camOpen>>
           ELSE /\ out' = Append(out, <<"Cannot read frame.">>)
                /\ Return(-1)
    /\ UNCHANGED <<windowOpen, shown, key, now, images, keysPolled, keyFrame,
                   detector, readerVars, alertVars>>

\* cv::namedWindow("Camera"); cv::imshow("Camera", frame);
ShowFirst ==
    /\ pc = "showFirst"
    /\ windowOpen' = TRUE
    /\ shown' = frame
    /\ pc' = "pollFirst"
    /\ UNCHANGED <<ret, camOpen, frame, frameNo, key, now, images, out, keysPolled, keyFrame,
                   readFailed, detector, readerVars, alertVars>>

\* key = cv::waitKey(1)
WaitKey(code) ==
    /\ key' = ToChar(code)
    /\ keysPolled' = Append(keysPolled, code)
    /\ keyFrame' = shown

\* char key = cv::waitKey(1);
PollFirst ==
    /\ pc = "pollFirst"
    /\ \E code \in KeyCodes : WaitKey(code)
    /\ pc' = "loopTest"
    /\ UNCHANGED <<ret, camOpen, windowOpen, frame, frameNo, shown, now, images, out,
                   readFailed, detector, readerVars, alertVars>>

\* a loop that tests for 'Q' (81) and so runs on after 'q'
LoopTest_UpperQ ==
    /\ pc = "loopTest"
    /\ pc' = IF key # 81 THEN "loopRead" ELSE "release"
    /\ UNCHANGED <<ret, captureVars, out, detector, readerVars, alertVars>>

\* a loop that also ends on 's'
LoopTest_EndsOnS ==
    /\ pc = "loopTest"
    /\ pc' = IF key # KeyQ /\ key # KeyS THEN "loopRead" ELSE "release"
    /\ UNCHANGED <<ret, captureVars, out, detector, readerVars, alertVars>>

\* while (key != 'q')
LoopTest ==
    /\ pc = "loopTest"
    /\ pc' = IF key # KeyQ THEN "loopRead" ELSE "release"
    /\ UNCHANGED <<ret, captureVars, out, detector, readerVars, alertVars>>

\* cap.read(frame); if (frame.empty()) { printf; break; }
LoopRead ==
    /\ pc = "loopRead"
    /\ \E ok \in BOOLEAN :
        /\ ok => frameNo < MaxFrames
        /\ CapRead(ok)
        /\ IF ok
           THEN /\ pc' = "loopShow"
                /\ UNCHANGED out
           ELSE /\ out' = Append(out, <<"Cannot read frame.">>)
                /\ pc' = "release"
    /\ UNCHANGED <<ret, camOpen, windowOpen, shown, key, now, images, keysPolled, keyFrame,
                   detector, readerVars, alertVars>>

\* cv::imshow("Camera", frame);
LoopShow ==
    /\ pc = "loopShow"
    /\ shown' = frame
    /\ pc' = "loopSave"
    /\ UNCHANGED <<ret, camOpen, windowOpen, frame, frameNo, key, now, images, out,
                   keysPolled, keyFrame, readFailed, detector, readerVars, alertVars>>

\* sprintf(filename, "image%d.jpg", time(NULL)): the id of the file name
FileNameId(t) == t

\* if (key = 's'): an assignment in place of the comparison, so every key saves
LoopSave_Assign ==
    /\ pc = "loopSave"
    /\ key' = KeyS
    /\ \E t \in now..MaxClock, ok \in BOOLEAN :
        /\ now' = t
        /\ IF ok
           THEN /\ images' = Append(images, [id |-> FileNameId(t), frame |-> frame])
                /\ out' = Append(out, <<"image saved:", FileNameId(t)>>)
           ELSE /\ out' = Append(out, <<"failed to save.">>)
                /\ UNCHANGED images
    /\ pc' = "loopPoll"
    /\ UNCHANGED <<ret, camOpen, windowOpen, frame, frameNo, shown, keysPolled, keyFrame,
                   readFailed, detector, readerVars, alertVars>>

\* if (key == 's') { sprintf(filename, ...); if (imwrite(filename, frame)) ... }
LoopSave ==
    /\ pc = "loopSave"
    /\ IF key = KeyS
       THEN \E t \in now..MaxClock, ok \in BOOLEAN :
                /\ now' = t
                /\ IF ok
                   THEN /\ images' = Append(images, [id |-> FileNameId(t), frame |-> frame])
                        /\ out' = Append(out, <<"image saved:", FileNameId(t)>>)
                   ELSE /\ out' = Append(out, <<"failed to save.">>)
                        /\ UNCHANGED images
       ELSE UNCHANGED <<now, images, out>>
    /\ pc' = "loopPoll"
    /\ UNCHANGED <<ret, camOpen, windowOpen, frame, frameNo, shown, key, keysPolled, keyFrame,
                   readFailed, detector, readerVars, alertVars>>

\* key = cv::waitKey(1);
LoopPoll ==
    /\ pc = "loopPoll"
    /\ \E code \in KeyCodes : WaitKey(code)
    /\ pc' = "loopTest"
    /\ UNCHANGED <<ret, camOpen, windowOpen, frame, frameNo, shown, now, images, out,
                   readFailed, detector, readerVars, alertVars>>

\* the capture stage left without cap.release()
Release_KeepsCamera ==
    /\ pc = "release"
    /\ windowOpen' = FALSE
    /\ pc' = "detect"
    /\ UNCHANGED <<ret, camOpen, frame, frameNo, shown, key, now, images, out, keysPolled,
                   keyFrame, readFailed, detector, readerVars, alertVars>>

\* cap.release(); cv::destroyAllWindows();
Release ==
    /\ pc = "release"
    /\ camOpen' = FALSE
    /\ windowOpen' = FALSE
    /\ pc' = "detect"
    /\ UNCHANGED <<ret, frame, frameNo, shown, key, now, images, out, keysPolled, keyFrame,
                   readFailed, detector, readerVars, alertVars>>

(* ---------------- detector stage, main.c:54 ---------------- *)

\* what the detector process may leave in image1.txt: with exit code 0 it
\* writes labels or, finding nothing to write, leaves the file as it was;
\* a failed run leaves the file as it was
DetectorOutput(status, old) ==
    IF status = "Success" THEN (Files \ {NoFile}) \cup {old} ELSE {old}

\* system("python3 detect.py ... --source image1.jpg --save-txt "); result ignored
InvokeDetector ==
    /\ pc = "detect"
    /\ \E status \in {"Success", "Failed"} :
        /\ detector' = Append(detector, [image |-> DetectorImageId, status |-> status])
        /\ resultFile' \in DetectorOutput(status, resultFile)
    /\ pc' = "fopen"
    /\ UNCHANGED <<ret, captureVars, out, file, filePos, line, alertVars>>

(* ---------------- result reader, main.c:59-77 ---------------- *)

\* fopen whose NULL result is reported but does not end main()
OpenResult_NoReturn ==
    /\ pc = "fopen"
    /\ IF resultFile = NoFile
       THEN /\ file' = "null"
            /\ out' = Append(out, <<"Cannot open file.">>)
            /\ pc' = "gpioSetup"
            /\ UNCHANGED <<ret, camOpen, filePos>>
       ELSE /\ file' = "open"
            /\ filePos' = 1
            /\ pc' = "fgets"
            /\ UNCHANGED <<ret, camOpen, out>>
    /\ UNCHANGED <<windowOpen, frame, frameNo, shown, key, now, images, keysPolled, keyFrame,
                   readFailed, detector, resultFile, line, alertVars>>

\* file = fopen("image1.txt", "r"); if (file == NULL) { printf; return 1; }
OpenResult ==
    /\ pc = "fopen"
    /\ IF resultFile = NoFile
       THEN /\ file' = "null"
            /\ out' = Append(out, <<"Cannot open file.">>)
            /\ Return(1)
            /\ UNCHANGED filePos
       ELSE /\ file' = "open"
            /\ filePos' = 1
            /\ pc' = "fgets"
            /\ UNCHANGED <<ret, camOpen, out>>
    /\ UNCHANGED <<windowOpen, frame, frameNo, shown, key, now, images, keysPolled, keyFrame,
                   readFailed, detector, resultFile, line, alertVars>>

\* an if in place of the while: only the first line is read
ReadLine_Once ==
    /\ pc = "fgets"
    /\ LET chunk == Fgets(resultFile[1], filePos, SizeofLine)
       IN IF chunk # <<>>
          THEN /\ line' = chunk
               /\ filePos' = filePos + Len(chunk)
               /\ out' = Append(out, <<"%s", chunk>>)
          ELSE UNCHANGED <<line, filePos, out>>
    /\ pc' = "fclose"
    /\ UNCHANGED <<ret, captureVars, detector, resultFile, file, alertVars>>

\* while (fgets(line, sizeof(line), file) != NULL) { printf("%s", line); }
ReadLine ==
    /\ pc = "fgets"
    /\ LET chunk == Fgets(resultFile[1], filePos, SizeofLine)
       IN IF chunk # <<>>
          THEN /\ line' = chunk
               /\ filePos' = filePos + Len(chunk)
               /\ out' = Append(out, <<"%s", chunk>>)
               /\ pc' = "fgets"
          ELSE /\ pc' = "fclose"
               /\ UNCHANGED <<line, filePos, out>>
    /\ UNCHANGED <<ret, captureVars, detector, resultFile, file, alertVars>>

\* the fclose left out
CloseResult_Omitted ==
    /\ pc = "fclose"
    /\ pc' = "gpioSetup"
    /\ UNCHANGED <<ret, captureVars, out, detector, readerVars, alertVars>>

\* fclose(file);
CloseResult ==
    /\ pc = "fclose"
    /\ file' = "closed"
    /\ pc' = "gpioSetup"
    /\ UNCHANGED <<ret, captureVars, out, detector, resultFile, filePos, line, alertVars>>

(* ---------------- alert stage, main.c:80-92 ---------------- *)

\* a setup failure that is reported but does not end main()
SetupGpio_NoReturn ==
    /\ pc = "gpioSetup"
    /\ \E ok \in BOOLEAN :
        /\ gpio' = IF ok THEN "ready" ELSE "failed"
        /\ out' = IF ok THEN out
                  ELSE Append(out, <<"failed to WiringPi library initialization">>)
    /\ pc' = "checkLine"
    /\ UNCHANGED <<ret, camOpen, windowOpen, frame, frameNo, shown, key, now, images,
                   keysPolled, keyFrame, readFailed, detector, readerVars, pin>>

\* if (wiringPiSetupGpio() == -1) { printf; return -1; }
SetupGpio ==
    /\ pc = "gpioSetup"
    /\ \E ok \in BOOLEAN :
        IF ok
        THEN /\ gpio' = "ready"
             /\ pc' = "checkLine"
             /\ UNCHANGED <<ret, camOpen, out>>
        ELSE /\ gpio' = "failed"
             /\ out' = Append(out, <<"failed to WiringPi library initialization">>)
             /\ Return(-1)
    /\ UNCHANGED <<windowOpen, frame, frameNo, shown, key, now, images, keysPolled, keyFrame,
                   readFailed, detector, readerVars, pin>>

\* the condition of main.c:85
LineCheck == SizeofLine > 1

\* if (sizeof(line) > 1) { ... }
CheckLine ==
    /\ pc = "checkLine"
    /\ pc' = IF LineCheck THEN "pinMode" ELSE "return0"
    /\ UNCHANGED <<ret, captureVars, out, detector, readerVars, alertVars>>

\* one call into the GPIO layer, then on to the next statement
PinStep(from, event, to) ==
    /\ pc = from
    /\ pin' = Append(pin, event)
    /\ pc' = to
    /\ UNCHANGED <<ret, captureVars, out, detector, readerVars, gpio>>

\* pinMode(BUZZER_PIN, OUTPUT);
SetPinMode == PinStep("pinMode", <<"pinMode", BUZZER_PIN, "OUTPUT">>, "high")

\* digitalWrite(BUZZER_PIN, HIGH);
WriteHigh == PinStep("high", <<"digitalWrite", BUZZER_PIN, "HIGH">>, "delay1")

\* delay(500);
DelayHigh == PinStep("delay1", <<"delay", PulseMs>>, "low")

\* the LOW write left out
WriteLow_Omitted ==
    /\ pc = "low"
    /\ pc' = "delay2"
    /\ UNCHANGED <<ret, captureVars, out, detector, readerVars, alertVars>>

\* a second HIGH where the LOW belongs
WriteLow_High == PinStep("low", <<"digitalWrite", BUZZER_PIN, "HIGH">>, "delay2")

\* digitalWrite(BUZZER_PIN, LOW);
WriteLow == PinStep("low", <<"digitalWrite", BUZZER_PIN, "LOW">>, "delay2")

\* delay(500);
DelayLow == PinStep("delay2", <<"delay", PulseMs>>, "return0")

\* return 0;
ReturnZero ==
    /\ pc = "return0"
    /\ Return(0)
    /\ UNCHANGED <<windowOpen, frame, frameNo, shown, key, now, images, out, keysPolled, keyFrame,
                   readFailed, detector, readerVars, alertVars>>

Next ==
    \/ OpenCamera \/ ReadFirst \/ ShowFirst \/ PollFirst
    \/ LoopTest \/ LoopRead \/ LoopShow \/ LoopSave \/ LoopPoll
    \/ Release \/ InvokeDetector
    \/ OpenResult \/ ReadLine \/ CloseResult
    \/ SetupGpio \/ CheckLine
    \/ SetPinMode \/ WriteHigh \/ DelayHigh \/ WriteLow \/ DelayLow
    \/ ReturnZero

Spec == Init /\ [][Next]_vars

(* ======================= properties ======================= *)

\* a diagnostic with this text was printed
Printed(msg) == \E i \in 1..Len(out) : out[i][1] = msg

\* the camera device was opened successfully at main.c:10
CameraOpened == pc # "open" /\ ~Printed("Cannot open camera.")

\* positions inside the capture session (Previewing / Saving)
CapturePcs == {"readFirst", "showFirst", "pollFirst", "loopTest", "loopRead",
               "loopShow", "loopSave", "loopPoll"}

\* ResultReader's hasDetection: some line is non-empty after trimming
HasDetection(text) == \E i \in 1..Len(text) : text[i] \notin {" ", NL}

\* the levels written to the buzzer pin, in order
IsWrite(e) == e[1] = "digitalWrite"
PinWrites == SelectSeq(pin, IsWrite)

\* the writes and waits on the pin, in order (pin mode changes left out)
IsWriteOrDelay(e) == e[1] \in {"digitalWrite", "delay"}
PinActivity == SelectSeq(pin, IsWriteOrDelay)

\* one alert pulse
Pulse == << <<"digitalWrite", BUZZER_PIN, "HIGH">>, <<"delay", PulseMs>>,
            <<"digitalWrite", BUZZER_PIN, "LOW">>, <<"delay", PulseMs>> >>

IsPrefix(s, t) == Len(s) <= Len(t) /\ SubSeq(t, 1, Len(s)) = s

\* the result file was opened successfully
ResultOpened == file \in {"open", "closed"}

\* C1: the ids of the image files written in one session are strictly
\* increasing from one save to the next, so no two saves write the same path
C1_UniqueFileNames ==
    \A i, j \in 1..Len(images) : i < j => images[i].id < images[j].id

\* C2: the image handed to the detector is one a save of this session wrote,
\* and the result file read afterwards is the .txt of the same base name
C2_DetectorOnSavedImage ==
    \A i \in 1..Len(detector) :
        /\ \E j \in 1..Len(images) : images[j].id = detector[i].image
        /\ file # "unset" => ResultFileId = detector[i].image

\* C3: a result file without a non-empty line leads to no write to the pin
C3_EmptyResultNoPinWrite ==
    (ResultOpened /\ ~HasDetection(resultFile[1])) => PinWrites = <<>>

\* C4: with a non-empty result line and a successful pin initialization the
\* pin sees HIGH, wait, LOW, wait in this order, and nothing else, by the end
C4_OnePulse ==
    (file = "closed" /\ HasDetection(resultFile[1]) /\ gpio = "ready") =>
        /\ IsPrefix(PinActivity, Pulse)
        /\ pc = "done" => PinActivity = Pulse

C4_Witness ==
    /\ pc = "done" /\ gpio = "ready" /\ file = "closed"
    /\ HasDetection(resultFile[1])
    /\ Len(PinWrites) = 2

\* C5: after a detector run that failed, the result file is not opened, no
\* pin is written and the failure is reported before the process ends
C5_FailedDetectorStops ==
    (detector # <<>> /\ detector[Len(detector)].status = "Failed") =>
        /\ file = "unset"
        /\ pin = <<>>
        /\ pc = "done" => out # <<>>

\* C6: with the camera opened, every frame read succeeding and no 'q' among
\* the key events, the session is still in the capture stage
C6_NoQuitNoTermination ==
    (/\ CameraOpened
     /\ ~readFailed
     /\ \A i \in 1..Len(keysPolled) : keysPolled[i] # KeyQ) => pc \in CapturePcs

C6_Witness ==
    /\ pc = "loopTest" /\ ~readFailed
    /\ Len(keysPolled) >= 3
    /\ \E i \in 1..Len(keysPolled) : keysPolled[i] = KeyS
    /\ \A i \in 1..Len(keysPolled) : keysPolled[i] # KeyQ

\* C7: a process in which a frame read failed ends with a non-zero exit code
C7_ReadFailureExitsNonZero ==
    (pc = "done" /\ readFailed) => ret # 0

\* C8: when the process has ended after the camera was opened, the camera
\* handle is released and no preview window is left open
C8_ReleasedOnExit ==
    (pc = "done" /\ CameraOpened) => (~camOpen /\ ~windowOpen)

C8_Witness ==
    /\ pc = "done" /\ CameraOpened
    /\ readFailed /\ frameNo = 0

C10_MissingFileReported ==
    /\ file = "null" =>
        /\ pc = "done" /\ ret = 1
        /\ Printed("Cannot open file.")
        /\ gpio = "uninit" /\ pin = <<>>
    /\ (ResultOpened /\ resultFile = <<<<>>>>) =>
        /\ ~Printed("Cannot open file.")
        /\ pc = "done" => file = "closed"

C10_Witness ==
    /\ file = "null" /\ pc = "done"
    /\ detector # <<>> /\ detector[1].status = "Success"

\* C11: when the camera cannot be opened, no frame is read, no key polled, no
\* image saved, no detector run and no pin touched; the failure is printed
\* and the process ends with a non-zero code
C11_OpenFailureStopsAll ==
    Printed("Cannot open camera.") =>
        /\ pc = "done" /\ ret # 0
        /\ frameNo = 0 /\ ~readFailed /\ keysPolled = <<>>
        /\ ~windowOpen
        /\ images = <<>> /\ detector = <<>>
        /\ file = "unset" /\ gpio = "uninit" /\ pin = <<>>

C11_Witness ==
    /\ pc = "done" /\ ret = -1
    /\ ~CameraOpened

\* C12: the frame an 's' save writes is the frame that was on display when
\* the 's' key event was polled
C12_SavesFrameOfKeyEvent ==
    [][Len(images') > Len(images) => images'[Len(images')].frame = keyFrame]_vars

\* number of 's' key events polled so far
NumS == Cardinality({i \in 1..Len(keysPolled) : keysPolled[i] = KeyS})

\* C13: no 's' key event is applied twice, and when the capture session has
\* ended every 's' key event has produced exactly one image file
C13_EverySSavedOnce ==
    /\ Len(images) <= NumS
    /\ pc \notin (CapturePcs \cup {"open"}) => Len(images) = NumS

\* a 'q' key event was polled
QPolled == \E i \in 1..Len(keysPolled) : keysPolled[i] = KeyQ

\* C14: once 'q' was polled the loop body is not entered again, no frame is
\* read, no image saved, no key polled, and no frame error is reported
C14_QuitEndsSession ==
    /\ [](QPolled =>
            /\ pc \notin {"loopRead", "loopShow", "loopSave", "loopPoll"}
            /\ ~readFailed
            /\ ~Printed("Cannot read frame."))
    /\ [][QPolled =>
            /\ frameNo' = frameNo /\ frame' = frame
            /\ images' = images
            /\ keysPolled' = keysPolled]_vars

C14_Witness ==
    /\ QPolled /\ pc = "done" /\ ret = 0
    /\ images # <<>>

\* C15: in an iteration entered with a key other than 's' and 'q' the loop
\* goes on to the next frame read and the save step writes no file, prints
\* nothing and leaves the saved images as they are
C15_OtherKeyChangesNothing ==
    [][(key \notin {KeyS, KeyQ} /\ pc \in {"loopTest", "loopSave"}) =>
            /\ pc' = IF pc = "loopTest" THEN "loopRead" ELSE "loopPoll"
            /\ images' = images /\ out' = out /\ now' = now
            /\ camOpen' = camOpen /\ windowOpen' = windowOpen
            /\ key' = key]_vars

C15_Witness ==
    /\ pc = "loopPoll" /\ key \notin {KeyS, KeyQ}
    /\ frameNo >= 2 /\ \E i \in 1..Len(keysPolled) : keysPolled[i] = KeyS

\* C16: a failed pin initialization is printed, no pin mode is set and no
\* level written, and the step changes neither the saved images nor the
\* result file nor what was read from it
C16_PinInitFailure ==
    /\ [](gpio = "failed" =>
            /\ Printed("failed to WiringPi library initialization")
            /\ pin = <<>>
            /\ pc = "done")
    /\ [][pc = "gpioSetup" =>
            /\ images' = images
            /\ resultFile' = resultFile /\ line' = line /\ filePos' = filePos
            /\ detector' = detector]_vars

C16_Witness ==
    /\ gpio = "failed" /\ pc = "done"
    /\ images # <<>> /\ HasDetection(resultFile[1])

\* C17: when the process has ended no result-file handle is open, and a
\* handle is closed only if the open succeeded
C17_ResultFileClosed ==
    /\ [](pc = "done" => file # "open")
    /\ [](file = "closed" => resultFile # NoFile)
    /\ [][file = "null" => file' = "null"]_vars

C17_Witness ==
    /\ pc = "done" /\ file = "closed"
    /\ gpio = "failed"

\* C18: when the process has ended, the last level written to the buzzer pin,
\* if any was written, is LOW
C18_PinNotLeftHigh ==
    (pc = "done" /\ PinWrites # <<>>) =>
        PinWrites[Len(PinWrites)] = <<"digitalWrite", BUZZER_PIN, "LOW">>

C18_Witness ==
    /\ pc = "done"
    /\ \E i \in 1..Len(PinWrites) : PinWrites[i][3] = "HIGH"

\* C19: the detector runs only after the capture loop has ended and the
\* camera is released, the result file is opened only after the detector
\* call has returned, and the detector runs at most once per process
C19_StagesInOrder ==
    /\ detector # <<>> =>
        /\ pc \notin (CapturePcs \cup {"open", "release", "detect"})
        /\ ~camOpen
    /\ pc = "detect" => ~camOpen
    /\ file # "unset" => detector # <<>>
    /\ Len(detector) <= 1

C19_Witness ==
    /\ Len(detector) = 1 /\ file = "open"
    /\ Len(images) >= 2

====
